---- MODULE Spec2Model ----
(***************************************************************************)
(* A model of generate_images.py: the badge generator's orchestrator       *)
(* main(), its two helpers generate_output_folder() and                    *)
(* check_permissions(), and the two renderers generate_overview() and      *)
(* generate_languages(), run as two asyncio tasks under asyncio.gather.     *)
(*                                                                         *)
(* Text is a sequence of symbols.  A symbol is one character, except that  *)
(* a literal chunk of the program's own text that holds no brace and no    *)
(* backslash (the fixed markup of the f-strings, the fixed markup of a     *)
(* template) is written as a single symbol: no placeholder and no escape   *)
(* can begin, end or lie inside such a chunk, so matching and escape       *)
(* processing treat it exactly as they treat its characters.               *)
(***************************************************************************)
EXTENDS Integers, Sequences, FiniteSets, TLC

VARIABLES
    env,         \* the process environment: variable name -> [set, val]
    fs,          \* the filesystem: templates/, generated/ and the files in them
    fs0,         \* the filesystem as it was when the run began (history)
    snapshot,    \* the values the Stats accessors return during this run
    failAt,      \* per renderer: the program position of the await that raises (0: none)
    mainPc,      \* position of main()
    error,       \* the exception that ended main(), "none" while there is none
    exitStatus,  \* -1 while the process runs, then its exit status
    session,     \* the aiohttp.ClientSession: "none", "open" or "closed"
    config,      \* main()'s locals once the environment is read, <<>> before
    stats,       \* <<>> until Stats(...) is constructed, then <<its arguments>>
    task,        \* the two renderer tasks
    calls,       \* every call of generate_output_folder so far: [caller, outcome]
    opened       \* the renderers that have opened their output file for writing

vars == <<env, fs, fs0, snapshot, failAt, mainPc, error, exitStatus, session,
          config, stats, task, calls, opened>>

Renderers == {"languages", "overview"}

----------------------------------------------------------------------------
(* Bounds of the model.                                                    *)

\* Longest run of whitespace put before and after an EXCLUDE_FORKED_REPOS value.
MaxPad == 1
\* Largest number of entries in the provider's language mapping.
MaxLangs == 3

----------------------------------------------------------------------------
(* Text helpers.                                                           *)

Reverse(s) == [i \in 1..Len(s) |-> s[Len(s) + 1 - i]]

\* The concatenation of a sequence of texts.
RECURSIVE Concat(_)
Concat(ss) == IF ss = <<>> THEN <<>> ELSE Head(ss) \o Concat(Tail(ss))

\* Whether text p occurs in text s.
Occurs(p, s) ==
    \E i \in 1..(Len(s) - Len(p) + 1) : SubSeq(s, i, i + Len(p) - 1) = p

\* All sequences over S of length at most n.
SeqsUpTo(S, n) == UNION {[1..k -> S] : k \in 0..n}

\* str.isspace() characters that str.strip() removes (ASCII ones).
Whitespace == {" ", "\t", "\n", "\r", "\f"}

\* str.strip(): the text without its leading and trailing whitespace.
Strip(s) ==
    LET idx == {i \in 1..Len(s) : s[i] \notin Whitespace}
    IN  IF idx = {} THEN <<>>
        ELSE LET lo == CHOOSE i \in idx : \A j \in idx : i <= j
                 hi == CHOOSE i \in idx : \A j \in idx : i >= j
             IN  SubSeq(s, lo, hi)

UpperToLower ==
    [c \in {"A","B","C","D","E","F","G","H","I","J","K","L","M",
            "N","O","P","Q","R","S","T","U","V","W","X","Y","Z"} |->
        CASE c = "A" -> "a" [] c = "B" -> "b" [] c = "C" -> "c" [] c = "D" -> "d"
          [] c = "E" -> "e" [] c = "F" -> "f" [] c = "G" -> "g" [] c = "H" -> "h"
          [] c = "I" -> "i" [] c = "J" -> "j" [] c = "K" -> "k" [] c = "L" -> "l"
          [] c = "M" -> "m" [] c = "N" -> "n" [] c = "O" -> "o" [] c = "P" -> "p"
          [] c = "Q" -> "q" [] c = "R" -> "r" [] c = "S" -> "s" [] c = "T" -> "t"
          [] c = "U" -> "u" [] c = "V" -> "v" [] c = "W" -> "w" [] c = "X" -> "x"
          [] c = "Y" -> "y" [] c = "Z" -> "z"]

\* str.lower() on ASCII text.
Lower(s) ==
    [i \in 1..Len(s) |->
        IF s[i] \in DOMAIN UpperToLower THEN UpperToLower[s[i]] ELSE s[i]]

\* str.split(","): the pieces between commas, in order (never empty as a list).
RECURSIVE SplitComma(_)
SplitComma(s) ==
    LET idx == {i \in 1..Len(s) : s[i] = ","}
    IN  IF idx = {} THEN <<s>>
        ELSE LET k == CHOOSE i \in idx : \A j \in idx : i <= j
             IN  <<SubSeq(s, 1, k - 1)>> \o SplitComma(SubSeq(s, k + 1, Len(s)))

DigitChar == [d \in 0..9 |->
    CASE d = 0 -> "0" [] d = 1 -> "1" [] d = 2 -> "2" [] d = 3 -> "3" [] d = 4 -> "4"
      [] d = 5 -> "5" [] d = 6 -> "6" [] d = 7 -> "7" [] d = 8 -> "8" [] d = 9 -> "9"]

\* The decimal digits of a natural number, most significant first.
RECURSIVE Digits(_)
Digits(n) == IF n < 10 THEN <<DigitChar[n]>>
             ELSE Digits(n \div 10) \o <<DigitChar[n % 10]>>

\* format(n, ","): decimal digits in groups of three separated by commas.
RECURSIVE FormatThousands(_)
FormatThousands(n) ==
    IF n < 1000 THEN Digits(n)
    ELSE LET low == n % 1000
         IN  FormatThousands(n \div 1000) \o <<",">>
                 \o <<DigitChar[low \div 100], DigitChar[(low \div 10) % 10],
                      DigitChar[low % 10]>>

\* format(p, "0.3f") and format(p, "0.2f") of a percentage given in hundredths
\* (h stands for the float h/100): such a value prints its two decimals exactly.
FormatFixed3(h) ==
    Digits(h \div 100) \o <<".", DigitChar[(h \div 10) % 10], DigitChar[h % 10], "0">>

FormatFixed2(h) ==
    Digits(h \div 100) \o <<".", DigitChar[(h \div 10) % 10], DigitChar[h % 10]>>

----------------------------------------------------------------------------
(* Placeholders and re.sub.                                                *)

\* The placeholder tokens, character by character.  As a regular expression
\* each matches exactly itself: a brace that opens no valid repetition is a
\* literal character.
PH_name == <<"{","{"," ","n","a","m","e"," ","}","}">>
PH_stars == <<"{","{"," ","s","t","a","r","s"," ","}","}">>
PH_forks == <<"{","{"," ","f","o","r","k","s"," ","}","}">>
PH_contributions == <<"{","{"," ","c","o","n","t","r","i","b","u","t","i","o","n","s"," ","}","}">>
PH_lines_changed == <<"{","{"," ","l","i","n","e","s","_","c","h","a","n","g","e","d"," ","}","}">>
PH_views == <<"{","{"," ","v","i","e","w","s"," ","}","}">>
PH_repos == <<"{","{"," ","r","e","p","o","s"," ","}","}">>
PH_progress == <<"{","{"," ","p","r","o","g","r","e","s","s"," ","}","}">>
PH_lang_list == <<"{","{"," ","l","a","n","g","_","l","i","s","t"," ","}","}">>

OverviewPlaceholders ==
    {PH_name, PH_stars, PH_forks, PH_contributions, PH_lines_changed, PH_views, PH_repos}

LanguagesPlaceholders == {PH_progress, PH_lang_list}

Backslash == "\\"

\* The characters an escape in a replacement template turns into one character.
KnownEscape == [c \in {"n", "t", "r", "f", "a", "b", "v"} |->
    CASE c = "n" -> "\n" [] c = "t" -> "\t" [] c = "r" -> "\r" [] c = "f" -> "\f"
      [] c = "a" -> "<BEL>" [] c = "b" -> "<BS>" [] c = "v" -> "<VT>"]

AsciiLetters ==
    DOMAIN UpperToLower \cup {UpperToLower[c] : c \in DOMAIN UpperToLower}

\* re's processing of a replacement string (its template), for a pattern
\* without groups whose match is the text `match`: a backslash followed by a
\* known letter is that control character, a doubled backslash is one
\* backslash, \g<0> is the match, any other group reference, any other ASCII
\* letter and a backslash at the end are errors, and a backslash before any
\* other character stays as it is.  (Octal escapes, a backslash before "0" or
\* before three octal digits, are outside the texts the model draws.)
RECURSIVE ExpandRepl(_, _)
ExpandRepl(repl, match) ==
    LET idx == {i \in 1..Len(repl) : repl[i] = Backslash}
    IN  IF idx = {} THEN [ok |-> TRUE, text |-> repl]
        ELSE
          LET k == CHOOSE i \in idx : \A j \in idx : i <= j
              before == SubSeq(repl, 1, k - 1)
              after(n) == ExpandRepl(SubSeq(repl, k + n, Len(repl)), match)
              with(piece, n) ==
                  IF after(n).ok
                  THEN [ok |-> TRUE, text |-> before \o piece \o after(n).text]
                  ELSE [ok |-> FALSE, text |-> <<>>]
              bad == [ok |-> FALSE, text |-> <<>>]
          IN  IF k = Len(repl) THEN bad
              ELSE LET c == repl[k + 1] IN
                CASE c \in DOMAIN KnownEscape -> with(<<KnownEscape[c]>>, 2)
                  [] c = Backslash -> with(<<Backslash>>, 2)
                  [] c = "g" ->
                       IF k + 4 <= Len(repl) /\ SubSeq(repl, k + 2, k + 4) = <<"<", "0", ">">>
                       THEN with(match, 5) ELSE bad
                  [] c \in {"1","2","3","4","5","6","7","8","9"} -> bad
                  [] c \in AsciiLetters \ (DOMAIN KnownEscape \cup {"g"}) -> bad
                  [] OTHER -> with(<<Backslash, c>>, 2)

\* Every non-overlapping occurrence of pattern in s, leftmost first, replaced by text.
RECURSIVE ReplaceAll(_, _, _)
ReplaceAll(pattern, text, s) ==
    LET n == Len(pattern)
        idx == {i \in 1..(Len(s) - n + 1) : SubSeq(s, i, i + n - 1) = pattern}
    IN  IF idx = {} THEN s
        ELSE LET k == CHOOSE i \in idx : \A j \in idx : i <= j
             IN  SubSeq(s, 1, k - 1) \o text
                     \o ReplaceAll(pattern, text, SubSeq(s, k + n, Len(s)))

\* re.sub(pattern, repl, string) for a literal pattern: the template is
\* compiled first (an invalid one raises re.error even when nothing matches),
\* then every match is replaced by its expansion.
ReSub(pattern, repl, string) ==
    LET e == ExpandRepl(repl, pattern)
    IN  IF e.ok THEN [ok |-> TRUE, text |-> ReplaceAll(pattern, e.text, string)]
        ELSE [ok |-> FALSE, text |-> string]

----------------------------------------------------------------------------
(* generate_overview's substitutions and generate_languages' fragments.    *)

\* The pattern of each substitution of generate_overview.
OverviewPattern(ph) ==
    CASE ph = "name" -> PH_name
      [] ph = "stars" -> PH_stars
      [] ph = "forks" -> PH_forks
      [] ph = "contributions" -> PH_contributions
      [] ph = "lines_changed" -> PH_lines_changed
      [] ph = "views" -> PH_views
      [] ph = "repos" -> PH_repos

\* The replacement of each substitution of generate_overview.
OverviewRepl(ph, snap) ==
    CASE ph = "name" -> snap.name
      [] ph = "stars" -> FormatThousands(snap.stargazers)
      [] ph = "forks" -> FormatThousands(snap.forks)
      [] ph = "contributions" -> FormatThousands(snap.total_contributions)
      [] ph = "lines_changed" ->
             FormatThousands(snap.lines_changed[1] + snap.lines_changed[2])
      [] ph = "views" -> FormatThousands(snap.views)
      [] ph = "repos" -> FormatThousands(Cardinality(snap.repos))

\* Insert x into the ascending sequence s behind every element whose size is
\* not larger: equal sizes keep their order of arrival.
RECURSIVE InsertStable(_, _)
InsertStable(x, s) ==
    IF s = <<>> THEN <<x>>
    ELSE IF s[Len(s)].size <= x.size THEN Append(s, x)
    ELSE Append(InsertStable(x, SubSeq(s, 1, Len(s) - 1)), s[Len(s)])

\* A stable ascending sort by size.
RECURSIVE StableSortAscending(_)
StableSortAscending(s) ==
    IF s = <<>> THEN <<>>
    ELSE InsertStable(s[Len(s)], StableSortAscending(SubSeq(s, 1, Len(s) - 1)))

\* sorted(items, reverse=True, key=size): list.sort reverses the list, sorts
\* it ascending with a stable sort, and reverses the result.
SortedLanguagesNoReverse(items) == Reverse(StableSortAscending(items))

SortedLanguages(items) == Reverse(StableSortAscending(Reverse(items)))

delay_between == 150

DefaultColor == <<"#000000">>

\* color = data.get("color"); color if color is not None else "#000000"
ResolveColor(data) == IF data.hasColor THEN data.color ELSE DefaultColor

\* data.get("prop", 0), in hundredths of a percent.
ResolveProp(data) == IF data.hasProp THEN data.prop ELSE 0

\* One segment of the progress bar.
ProgressItem(data) ==
    <<"<span style=\"background-color: ">> \o ResolveColor(data)
        \o <<";width: ">> \o FormatFixed3(ResolveProp(data))
        \o <<"%;\" class=\"progress-item\"></span>">>

\* One item of the language list; i is the entry's index from 0.
LangListItem(i, data) ==
    <<"\n<li style=\"animation-delay: ">> \o Digits(i * delay_between)
        \o <<"ms;\">\n<svg xmlns=\"http://www.w3.org/2000/svg\" class=\"octicon\" style=\"fill:">>
        \o ResolveColor(data)
        \o <<";\"\nviewBox=\"0 0 16 16\" version=\"1.1\" width=\"16\" height=\"16\"><path\nfill-rule=\"evenodd\" d=\"M8 4a4 4 0 100 8 4 4 0 000-8z\"></path></svg>\n<span class=\"lang\">">>
        \o data.lang
        \o <<"</span>\n<span class=\"percent\">">> \o FormatFixed2(ResolveProp(data))
        \o <<"%</span>\n</li>\n\n">>

\* The loop of generate_languages over the sorted entries.
Progress(sorted) == Concat([i \in 1..Len(sorted) |-> ProgressItem(sorted[i])])

LangList(sorted) == Concat([i \in 1..Len(sorted) |-> LangListItem(i - 1, sorted[i])])

----------------------------------------------------------------------------
(* The environment: os.getenv and what main() makes of it.                 *)

EnvUnset == [set |-> FALSE, val |-> <<>>]

EnvVal(v) == [set |-> TRUE, val |-> v]

\* Python's truth value of os.getenv(...): neither None nor "".
Truthy(v) == v.set /\ v.val # <<>>

\* {x.strip() for x in raw.split(",")} if raw else None
ParseExcluded(v) ==
    IF Truthy(v)
    THEN LET parts == SplitComma(v.val)
         IN  [isNone |-> FALSE, items |-> {Strip(parts[i]) : i \in 1..Len(parts)}]
    ELSE [isNone |-> TRUE, items |-> {}]

\* not not raw and raw.strip().lower() != "false"
IgnoreForkedReposNoLower(v) ==
    Truthy(v) /\ Strip(v.val) # <<"f", "a", "l", "s", "e">>

IgnoreForkedRepos(v) ==
    Truthy(v) /\ Lower(Strip(v.val)) # <<"f", "a", "l", "s", "e">>

\* if not access_token: raise ...
AccessTokenMissingNever(v) == FALSE

AccessTokenMissing(v) == ~Truthy(v)

\* if user is None: raise ...
UserMissing(v) == ~v.set

----------------------------------------------------------------------------
(* The filesystem, generate_output_folder and check_permissions.           *)

\* not os.path.isdir("generated")
NeedsCreateAlways(f) == TRUE

NeedsCreate(f) == f.generated # "dir"

\* generate_output_folder(): the filesystem it leaves, what it did ("created",
\* "exists", or "error" when os.mkdir raises) and the exception raised.
GenerateOutputFolder(f) ==
    IF NeedsCreate(f)
    THEN IF f.generated # "absent"
         THEN [fs |-> f, outcome |-> "error", error |-> "FileExistsError: generated"]
         ELSE IF ~f.cwdWritable
         THEN [fs |-> f, outcome |-> "error", error |-> "PermissionError: mkdir generated"]
         ELSE [fs |-> [f EXCEPT !.generated = "dir", !.genWritable = TRUE],
               outcome |-> "created", error |-> "none"]
    ELSE [fs |-> f, outcome |-> "exists", error |-> "none"]

\* check_permissions(): the exception it raises, "none" when it returns.
CheckPermissionsSkipWrite(f) ==
    IF ~f.templates THEN "FileNotFoundError: templates"
    ELSE IF ~f.tpl["overview"].exists THEN "FileNotFoundError: templates/overview.svg"
    ELSE IF ~f.tpl["languages"].exists THEN "FileNotFoundError: templates/languages.svg"
    ELSE IF ~f.tpl["overview"].readable THEN "PermissionError: templates/overview.svg"
    ELSE IF ~f.tpl["languages"].readable THEN "PermissionError: templates/languages.svg"
    ELSE "none"

CheckPermissions(f) ==
    IF ~f.templates THEN "FileNotFoundError: templates"
    ELSE IF ~f.tpl["overview"].exists THEN "FileNotFoundError: templates/overview.svg"
    ELSE IF ~f.tpl["languages"].exists THEN "FileNotFoundError: templates/languages.svg"
    ELSE IF ~f.tpl["overview"].readable THEN "PermissionError: templates/overview.svg"
    ELSE IF ~f.tpl["languages"].readable THEN "PermissionError: templates/languages.svg"
    ELSE IF ~(f.generated = "dir" /\ f.genWritable) THEN "PermissionError: generated"
    ELSE "none"

----------------------------------------------------------------------------
(* The renderers, each a straight-line program.  An "await" is the only    *)
(* place where a renderer can be suspended, fail on behalf of the          *)
(* provider, or be cancelled; everything between two awaits runs without   *)
(* interruption.                                                           *)

Op(o, a) == [op |-> o, arg |-> a]

\* generate_overview with its output file opened before the accessors are awaited.
OverviewProgramOpenFirst ==
    << Op("read", "overview"), Op("mkdir", ""), Op("open_w", ""),
       Op("await", "name"), Op("sub", "name"),
       Op("await", "stargazers"), Op("sub", "stars"),
       Op("await", "forks"), Op("sub", "forks"),
       Op("await", "total_contributions"), Op("sub", "contributions"),
       Op("await", "lines_changed"), Op("await", "lines_changed"),
       Op("sub", "lines_changed"),
       Op("await", "views"), Op("sub", "views"),
       Op("await", "repos"), Op("sub", "repos"),
       Op("write", "") >>

\* generate_overview, statement by statement.
OverviewProgram ==
    << Op("read", "overview"),
       Op("await", "name"), Op("sub", "name"),
       Op("await", "stargazers"), Op("sub", "stars"),
       Op("await", "forks"), Op("sub", "forks"),
       Op("await", "total_contributions"), Op("sub", "contributions"),
       Op("await", "lines_changed"), Op("await", "lines_changed"),
       Op("sub", "lines_changed"),
       Op("await", "views"), Op("sub", "views"),
       Op("await", "repos"), Op("sub", "repos"),
       Op("mkdir", ""), Op("open_w", ""), Op("write", "") >>

\* generate_languages, statement by statement.
LanguagesProgram ==
    << Op("read", "languages"),
       Op("await", "languages"), Op("build", ""),
       Op("sub", "progress"), Op("sub", "lang_list"),
       Op("mkdir", ""), Op("open_w", ""), Op("write", "") >>

Program(r) == IF r = "overview" THEN OverviewProgram ELSE LanguagesProgram

\* The positions of a renderer's awaits.
AwaitPcs(r) == {i \in 1..Len(Program(r)) : Program(r)[i].op = "await"}

NewTask == [status |-> "none", pc |-> 1, output |-> <<>>, sorted |-> <<>>,
            progress |-> <<>>, lang_list |-> <<>>, error |-> "none"]

\* The pattern and the replacement of a renderer's re.sub call.
SubPattern(a) ==
    CASE a = "progress" -> PH_progress
      [] a = "lang_list" -> PH_lang_list
      [] OTHER -> OverviewPattern(a)

SubRepl(a, t, snap) ==
    CASE a = "progress" -> t.progress
      [] a = "lang_list" -> t.lang_list
      [] OTHER -> OverviewRepl(a, snap)

\* Renderer r runs from its position to its next await, its end or an
\* exception.  m holds the task with the filesystem, the calls of
\* generate_output_folder and the set of opened outputs it works on.
RECURSIVE Exec(_, _, _)
Exec(r, m, snap) ==
    IF m.t.pc > Len(Program(r)) THEN [m EXCEPT !.t.status = "done"]
    ELSE
      LET o == Program(r)[m.t.pc]
          next(mm) == Exec(r, [mm EXCEPT !.t.pc = m.t.pc + 1], snap)
          raise(e) == [m EXCEPT !.t.status = "failed", !.t.error = e]
      IN  CASE o.op = "await" -> [m EXCEPT !.t.status = "suspended"]
            [] o.op = "read" ->
                 LET tpl == m.fs.tpl[r] IN
                 IF ~(m.fs.templates /\ tpl.exists) THEN raise("FileNotFoundError: template")
                 ELSE IF ~tpl.readable THEN raise("PermissionError: template")
                 ELSE next([m EXCEPT !.t.output = tpl.data])
            [] o.op = "sub" ->
                 LET res == ReSub(SubPattern(o.arg), SubRepl(o.arg, m.t, snap), m.t.output)
                 IN  IF res.ok THEN next([m EXCEPT !.t.output = res.text])
                     ELSE raise("re.error")
            [] o.op = "build" ->
                 LET sorted == SortedLanguages(snap.languages)
                 IN  next([m EXCEPT !.t.sorted = sorted,
                                    !.t.progress = Progress(sorted),
                                    !.t.lang_list = LangList(sorted)])
            [] o.op = "mkdir" ->
                 LET g == GenerateOutputFolder(m.fs)
                     mm == [m EXCEPT !.fs = g.fs,
                                     !.calls = Append(m.calls,
                                         [caller |-> r, outcome |-> g.outcome])]
                 IN  IF g.error = "none" THEN next(mm)
                     ELSE [mm EXCEPT !.t.status = "failed", !.t.error = g.error]
            [] o.op = "open_w" ->
                 IF m.fs.generated # "dir" THEN raise("FileNotFoundError: output")
                 ELSE IF ~m.fs.genWritable /\ ~m.fs.out[r].exists
                 THEN raise("PermissionError: output")
                 ELSE next([m EXCEPT !.fs.out[r] = [exists |-> TRUE, data |-> <<>>],
                                     !.opened = m.opened \cup {r}])
            [] o.op = "write" ->
                 next([m EXCEPT !.fs.out[r].data = m.t.output])

----------------------------------------------------------------------------
(* asyncio: gather and the shutdown of asyncio.run.                        *)

\* asyncio.gather(generate_languages(s), generate_overview(s)) makes the tasks
\* in this order, and the loop starts them in this order.
FirstTask == "languages"

\* What the gather future holds: the first exception of a child as soon as
\* one child has failed, the results once every child is done.
GatherResultReturnExceptions(tk) ==
    IF \A r \in Renderers : tk[r].status \in {"done", "failed"} THEN "ok" ELSE "pending"

GatherResult(tk) ==
    IF \E r \in Renderers : tk[r].status = "failed" THEN "exception"
    ELSE IF \A r \in Renderers : tk[r].status = "done" THEN "ok"
    ELSE "pending"

\* asyncio.run cancels every task still pending when main() has finished: the
\* task gets CancelledError at the await it is suspended at, and ends there.
CancelPendingNever(t) == t

CancelPending(t) ==
    IF t.status \in {"ready", "suspended"}
    THEN [t EXCEPT !.status = "cancelled", !.error = "CancelledError"]
    ELSE t

----------------------------------------------------------------------------
(* main(), step by step.                                                   *)

\* An exception leaves main() before the tasks exist: the process ends.
Raise(e) == /\ mainPc' = "exit"
            /\ error' = e
            /\ exitStatus' = 1

\* generate_output_folder()
MainPrepare ==
    /\ mainPc = "prepare"
    /\ LET g == GenerateOutputFolder(fs)
       IN  /\ fs' = g.fs
           /\ calls' = Append(calls, [caller |-> "main", outcome |-> g.outcome])
           /\ IF g.error = "none"
              THEN mainPc' = "check" /\ UNCHANGED <<error, exitStatus>>
              ELSE Raise(g.error)
    /\ UNCHANGED <<env, fs0, snapshot, failAt, session, config, stats, task, opened>>

\* check_permissions()
MainCheck ==
    /\ mainPc = "check"
    /\ LET e == CheckPermissions(fs)
       IN  IF e = "none"
           THEN mainPc' = "env" /\ UNCHANGED <<error, exitStatus>>
           ELSE Raise(e)
    /\ UNCHANGED <<env, fs, fs0, snapshot, failAt, session, config, stats, task,
                   calls, opened>>

\* The os.getenv calls and what is computed from them.
MainEnv ==
    /\ mainPc = "env"
    /\ IF AccessTokenMissing(env["ACCESS_TOKEN"])
       THEN Raise("Exception: access token") /\ UNCHANGED config
       ELSE IF UserMissing(env["GITHUB_ACTOR"])
       THEN Raise("RuntimeError: GITHUB_ACTOR") /\ UNCHANGED config
       ELSE /\ config' = << [user |-> env["GITHUB_ACTOR"].val,
                             access_token |-> env["ACCESS_TOKEN"].val,
                             exclude_repos |-> ParseExcluded(env["EXCLUDED"]),
                             exclude_langs |-> ParseExcluded(env["EXCLUDED_LANGS"]),
                             ignore_forked_repos |->
                                 IgnoreForkedRepos(env["EXCLUDE_FORKED_REPOS"])] >>
            /\ mainPc' = "session"
            /\ UNCHANGED <<error, exitStatus>>
    /\ UNCHANGED <<env, fs, fs0, snapshot, failAt, session, stats, task, calls, opened>>

\* async with aiohttp.ClientSession() as session:
MainSession ==
    /\ mainPc = "session"
    /\ session' = "open"
    /\ mainPc' = "stats"
    /\ UNCHANGED <<env, fs, fs0, snapshot, failAt, error, exitStatus, config, stats,
                   task, calls, opened>>

\* s = Stats(user, access_token, session, ...)
MainStats ==
    /\ mainPc = "stats"
    /\ stats' = config
    /\ mainPc' = "gather"
    /\ UNCHANGED <<env, fs, fs0, snapshot, failAt, error, exitStatus, session, config,
                   task, calls, opened>>

\* asyncio.gather(...) wraps both coroutines in tasks; main() waits for them.
MainGather ==
    /\ mainPc = "gather"
    /\ task' = [r \in Renderers |-> [task[r] EXCEPT !.status = "ready"]]
    /\ mainPc' = "waiting"
    /\ UNCHANGED <<env, fs, fs0, snapshot, failAt, error, exitStatus, session, config,
                   stats, calls, opened>>

\* The event loop runs renderer r: its first step, or the step after the
\* await it was suspended at has delivered its value or raised.
Resume(r) ==
    /\ mainPc \in {"waiting", "closing"}
    /\ task[r].status \in {"ready", "suspended"}
    /\ (r # FirstTask /\ task[r].status = "ready") => task[FirstTask].status # "ready"
    /\ LET t == task[r]
           m0 == [t |-> t, fs |-> fs, calls |-> calls, opened |-> opened]
           m == IF t.status = "suspended" /\ failAt[r] = t.pc
                THEN [m0 EXCEPT !.t.status = "failed", !.t.error = "accessor error"]
                ELSE Exec(r, [m0 EXCEPT !.t.pc = IF t.status = "ready" THEN 1
                                                  ELSE t.pc + 1], snapshot)
       IN  /\ task' = [task EXCEPT ![r] = m.t]
           /\ fs' = m.fs
           /\ calls' = m.calls
           /\ opened' = m.opened
    /\ UNCHANGED <<env, fs0, snapshot, failAt, mainPc, error, exitStatus, session,
                   config, stats>>

\* The gather future is done: main() goes on, with the children's results or
\* with the exception of a failed child, and leaves the async with block.
MainWake ==
    /\ mainPc = "waiting"
    /\ \A r \in Renderers : task[r].status # "ready"
    /\ GatherResult(task) # "pending"
    /\ error' \in IF GatherResult(task) = "ok" THEN {"none"}
                  ELSE {task[r].error : r \in {x \in Renderers : task[x].status = "failed"}}
    /\ mainPc' = "closing"
    /\ UNCHANGED <<env, fs, fs0, snapshot, failAt, exitStatus, session, config, stats,
                   task, calls, opened>>

\* asyncio.run(main()) re-raises what main() raised: the interpreter then
\* exits with status 1, and with 0 when main() returned.
ExitStatusSwallow(e) == 0

ExitStatus(e) == IF e = "none" THEN 0 ELSE 1

\* The session is closed, main() returns or raises, and asyncio.run cancels
\* what is still pending and ends the process.
MainExit ==
    /\ mainPc = "closing"
    /\ session' = "closed"
    /\ task' = [r \in Renderers |-> CancelPending(task[r])]
    /\ exitStatus' = ExitStatus(error)
    /\ mainPc' = "exit"
    /\ UNCHANGED <<env, fs, fs0, snapshot, failAt, error, config, stats, calls, opened>>

Next ==
    \/ MainPrepare
    \/ MainCheck
    \/ MainEnv
    \/ MainSession
    \/ MainStats
    \/ MainGather
    \/ \E r \in Renderers : Resume(r)
    \/ MainWake
    \/ MainExit

----------------------------------------------------------------------------
(* The inputs of a run: templates, filesystems, environments, snapshots.   *)

\* templates/overview.svg: markup around the seven placeholders.
OverviewTemplate ==
    <<"<svg><text>">> \o PH_name \o <<"</text><text>">> \o PH_stars
        \o <<"</text><text>">> \o PH_forks \o <<"</text><text>">> \o PH_contributions
        \o <<"</text><text>">> \o PH_lines_changed \o <<"</text><text>">> \o PH_views
        \o <<"</text><text>">> \o PH_repos \o <<"</text></svg>">>

\* A template that names the user twice: re.sub replaces every occurrence.
OverviewTemplateTwice == <<"<svg><title>">> \o PH_name \o <<"</title>">> \o OverviewTemplate

\* templates/languages.svg: markup around the two placeholders.
LanguagesTemplate ==
    <<"<svg><span class=\"progress\">">> \o PH_progress \o <<"</span><ul>">>
        \o PH_lang_list \o <<"</ul></svg>">>

DefaultTemplate == [r \in Renderers |->
    IF r = "overview" THEN OverviewTemplate ELSE LanguagesTemplate]

NoFile == [exists |-> FALSE, data |-> <<>>]

\* What an earlier run left in generated/.
OldBadge == [exists |-> TRUE, data |-> <<"<svg>old badge</svg>">>]

\* A template file as the filesystem holds it.
TemplateFile(state, data) ==
    IF state = "absent" THEN [exists |-> FALSE, readable |-> FALSE, data |-> <<>>]
    ELSE [exists |-> TRUE, readable |-> (state = "ok"), data |-> data]

\* A working directory with both templates in place and no generated/ yet.
GoodFilesystem(overviewTemplate) ==
    [templates |-> TRUE,
     tpl |-> [r \in Renderers |->
                 TemplateFile("ok", IF r = "overview" THEN overviewTemplate
                                    ELSE LanguagesTemplate)],
     generated |-> "absent", genWritable |-> FALSE, cwdWritable |-> TRUE,
     out |-> [r \in Renderers |-> NoFile]]

\* Every working directory a run may start in: templates/ present or not, each
\* template absent, unreadable or fine, generated/ absent (in a directory
\* that allows or refuses its creation), a regular file, or a directory that
\* is writable or not and holds the badges of an earlier run or nothing.
RunFilesystems ==
    { [templates |-> td,
       tpl |-> [r \in Renderers |-> TemplateFile(te[r], DefaultTemplate[r])],
       generated |-> g, genWritable |-> gw, cwdWritable |-> cw,
       out |-> [r \in Renderers |-> IF old THEN OldBadge ELSE NoFile]] :
        td \in BOOLEAN, te \in [Renderers -> {"absent", "unreadable", "ok"}],
        g \in {"absent", "file", "dir"}, gw \in BOOLEAN, cw \in BOOLEAN,
        old \in BOOLEAN }

\* The combinations that exist: files only inside a directory, permissions
\* only of what is there.
WellFormedFs(f) ==
    /\ (~f.templates) => \A r \in Renderers : ~f.tpl[r].exists
    /\ (f.generated # "dir") => (~f.genWritable /\ \A r \in Renderers : ~f.out[r].exists)
    /\ (f.generated # "absent") => f.cwdWritable

EnvNames == {"ACCESS_TOKEN", "GITHUB_ACTOR", "EXCLUDED", "EXCLUDED_LANGS",
             "EXCLUDE_FORKED_REPOS"}

GoodEnv ==
    [n \in EnvNames |->
        CASE n = "ACCESS_TOKEN" -> EnvVal(<<"g", "h", "p">>)
          [] n = "GITHUB_ACTOR" -> EnvVal(<<"b", "o", "b">>)
          [] OTHER -> EnvUnset]

\* The environments of a run: each required variable unset, empty or set.
RunEnvs ==
    { [GoodEnv EXCEPT !["ACCESS_TOKEN"] = tok, !["GITHUB_ACTOR"] = usr,
                      !["EXCLUDED"] = exc, !["EXCLUDE_FORKED_REPOS"] = frk] :
        tok \in {EnvUnset, EnvVal(<<>>), EnvVal(<<"g", "h", "p">>)},
        usr \in {EnvUnset, EnvVal(<<>>), EnvVal(<<"b", "o", "b">>)},
        exc \in {EnvUnset, EnvVal(<<"a", ",", " ", "b">>)},
        frk \in {EnvVal(<<"t", "r", "u", "e">>)} }

\* EXCLUDE_FORKED_REPOS values: "false" in every letter case and other words,
\* each with up to MaxPad whitespace characters before and after it.
FalseLower == <<"f", "a", "l", "s", "e">>
FalseUpper == <<"F", "A", "L", "S", "E">>

FalseVariants ==
    { [i \in 1..5 |-> IF up[i] THEN FalseUpper[i] ELSE FalseLower[i]] :
        up \in [1..5 -> BOOLEAN] }

OtherWords == { <<>>, <<"t", "r", "u", "e">>, <<"0">>, <<"f", "a", "l", "s">>, <<"f", "a", "l", "s", "e", "e">>, <<"f", " ", "a", "l", "s", "e">>, <<"n", "o">> }

FlagValues ==
    { l \o w \o r : l \in SeqsUpTo({" ", "\t"}, MaxPad),
                    w \in FalseVariants \cup OtherWords,
                    r \in SeqsUpTo({" ", "\n"}, MaxPad) }

FlagEnvs ==
    { [GoodEnv EXCEPT !["EXCLUDE_FORKED_REPOS"] = frk] :
        frk \in {EnvUnset} \cup {EnvVal(v) : v \in FlagValues} }

\* The numbers of a snapshot.
Counts(stars, forks, contributions, added, removed, views, repos) ==
    [stargazers |-> stars, forks |-> forks, total_contributions |-> contributions,
     lines_changed |-> <<added, removed>>, views |-> views, repos |-> repos]

CountProfiles ==
    { Counts(0, 0, 0, 0, 0, 0, {}),
      Counts(1234, 999, 1000, 1234567, 765, 12, {"a/x", "a/y", "b/z"}) }

\* One entry of the language mapping.
Entry(lang, size, hasColor, color, hasProp, prop) ==
    [lang |-> lang, size |-> size, hasColor |-> hasColor, color |-> color,
     hasProp |-> hasProp, prop |-> prop]

LangPython == Entry(<<"P", "y", "t", "h", "o", "n">>, 500, TRUE, <<"#3572A5">>, TRUE, 4545)
LangC == Entry(<<"C">>, 500, FALSE, <<>>, FALSE, 0)
LangGo == Entry(<<"G", "o">>, 100, TRUE, <<"#00ADD8">>, TRUE, 909)
LangOdd == Entry(PH_lang_list, 500, TRUE, PH_progress, TRUE, 10000)

LangPool == {LangPython, LangC, LangGo, LangOdd}

\* The language mappings: up to MaxLangs entries with distinct names, in
\* every iteration order.
LanguageMappings ==
    { s \in SeqsUpTo(LangPool, MaxLangs) :
        \A i, j \in 1..Len(s) : i # j => s[i].lang # s[j].lang }

Snapshot(name, counts, languages) ==
    [name |-> name, stargazers |-> counts.stargazers, forks |-> counts.forks,
     total_contributions |-> counts.total_contributions,
     lines_changed |-> counts.lines_changed, views |-> counts.views,
     repos |-> counts.repos, languages |-> languages]

\* Display names: plain, holding a placeholder, holding a backslash.
PlainName == <<"B", "o", "b">>
BadEscapeName == <<"a", Backslash, "1">>

DisplayNames ==
    { PlainName, PH_name, PH_repos, BadEscapeName, <<"a", Backslash, "n", "b">>,
      <<Backslash, "g", "<", "0", ">">> }

FullCounts == Counts(1234, 999, 1000, 1234567, 765, 12, {"a/x", "a/y", "b/z"})

\* The snapshots of a whole run.
RunSnapshots ==
    { Snapshot(PlainName, FullCounts, <<LangPython, LangC, LangGo>>),
      Snapshot(BadEscapeName, FullCounts, <<LangGo>>) }

\* The snapshots the renderers are checked on.
RenderSnapshots ==
    { Snapshot(n, c, l) : n \in DisplayNames, c \in CountProfiles, l \in LanguageMappings }

NoFailure == [r \in Renderers |-> 0]

\* What every run starts from, whatever its inputs.
InitRest ==
    /\ fs0 = fs
    /\ mainPc = "prepare"
    /\ error = "none"
    /\ exitStatus = -1
    /\ session = "none"
    /\ config = <<>>
    /\ stats = <<>>
    /\ task = [r \in Renderers |-> NewTask]
    /\ calls = <<>>
    /\ opened = {}

\* A run of the program from any environment and working directory, with
\* any one accessor call of each renderer failing, or none.
Init ==
    /\ env \in RunEnvs
    /\ fs \in {f \in RunFilesystems : WellFormedFs(f)}
    /\ snapshot \in RunSnapshots
    /\ failAt \in {f \in [Renderers -> 0..Len(OverviewProgram)] :
                      \A r \in Renderers : f[r] \in {0} \cup AwaitPcs(r)}
    /\ InitRest

Spec == Init /\ [][Next]_vars

\* Runs in a good working directory over the EXCLUDE_FORKED_REPOS values.
InitFlag ==
    /\ env \in FlagEnvs
    /\ fs = GoodFilesystem(OverviewTemplate)
    /\ snapshot = Snapshot(PlainName, FullCounts, <<LangGo>>)
    /\ failAt = NoFailure
    /\ InitRest

SpecFlag == InitFlag /\ [][Next]_vars

\* Runs in a good working directory over the snapshots and the templates.
InitRender ==
    /\ env = GoodEnv
    /\ fs \in {GoodFilesystem(t) : t \in {OverviewTemplate, OverviewTemplateTwice}}
    /\ snapshot \in RenderSnapshots
    /\ failAt = NoFailure
    /\ InitRest

SpecRender == InitRender /\ [][Next]_vars

----------------------------------------------------------------------------
(* The claims.                                                             *)

NotStarted(r) == task[r].status = "none"

\* No network session, no provider, no renderer, no badge written or touched.
NothingBegun ==
    /\ session = "none"
    /\ stats = <<>>
    /\ \A r \in Renderers : NotStarted(r)
    /\ opened = {}
    /\ fs.out = fs0.out

\* C1: when ACCESS_TOKEN or GITHUB_ACTOR is not in the environment, main()
\* never gets past reading the environment: it ends with an error and exit
\* status 1, and until then no session is opened, no Stats is constructed, no
\* renderer starts and no badge file is written; and it does end (every state
\* before the exit has a next step).
C1_MissingCredentialStopsEarly ==
    (~env["ACCESS_TOKEN"].set \/ ~env["GITHUB_ACTOR"].set) =>
        /\ NothingBegun
        /\ mainPc \in {"prepare", "check", "env", "exit"}
        /\ (mainPc = "exit" => exitStatus = 1 /\ error # "none")
        /\ (mainPc # "exit" => ENABLED Next)

\* C1's case: the token is unset, the directory was prepared, the checks
\* passed, and the run ended on the missing token.
C1_Witness ==
    /\ ~env["ACCESS_TOKEN"].set
    /\ mainPc = "exit"
    /\ error = "Exception: access token"
    /\ Len(calls) = 1 /\ calls[1].outcome = "created"


\* Renderer r has written its badge in this run: it opened its output file,
\* reached its end, and the file holds the text it built.
Written(r) ==
    /\ r \in opened
    /\ task[r].status = "done"
    /\ fs.out[r] = [exists |-> TRUE, data |-> task[r].output]

\* C3: a run ends with status 0 or 1; it ends with 0 only when both
\* renderers have written their badge in this run, and with 1 exactly when
\* main() ended on an exception.
C3_NoPartialSuccess ==
    /\ exitStatus \in {-1, 0, 1}
    /\ (mainPc = "exit") <=> (exitStatus # -1)
    /\ (exitStatus = 0) => \A r \in Renderers : Written(r)
    /\ (exitStatus = 1) <=> (mainPc = "exit" /\ error # "none")

\* C3's case: a successful run that replaced the badges of an earlier run.
C3_Witness ==
    /\ exitStatus = 0
    /\ \A r \in Renderers : fs0.out[r] = OldBadge /\ Written(r)

\* What check_permissions is there to refuse, read off the filesystem.
MissingDirectory == ~fs.templates
MissingTemplate(r) == ~fs.tpl[r].exists
UnreadableTemplate(r) == fs.tpl[r].exists /\ ~fs.tpl[r].readable
UnwritableOutput == ~(fs.generated = "dir" /\ fs.genWritable)

BadWorkingDirectory ==
    \/ MissingDirectory
    \/ \E r \in Renderers : MissingTemplate(r) \/ UnreadableTemplate(r)
    \/ UnwritableOutput

\* The errors that correspond to what is wrong.
CorrespondingErrors ==
    (IF MissingDirectory THEN {"FileNotFoundError: templates"} ELSE {})
    \cup (IF MissingTemplate("overview")
          THEN {"FileNotFoundError: templates/overview.svg"} ELSE {})
    \cup (IF MissingTemplate("languages")
          THEN {"FileNotFoundError: templates/languages.svg"} ELSE {})
    \cup (IF UnreadableTemplate("overview")
          THEN {"PermissionError: templates/overview.svg"} ELSE {})
    \cup (IF UnreadableTemplate("languages")
          THEN {"PermissionError: templates/languages.svg"} ELSE {})
    \cup (IF UnwritableOutput THEN {"PermissionError: generated"} ELSE {})

\* The output directory has been prepared: main()'s call of
\* generate_output_folder has returned.
Prepared == Len(calls) >= 1 /\ calls[1].caller = "main" /\ calls[1].outcome # "error"

C6_State ==
    /\ (mainPc = "check") => (Len(calls) = 1 /\ Prepared /\ NothingBegun)
    /\ (Prepared /\ BadWorkingDirectory) =>
          /\ mainPc \in {"check", "exit"}
          /\ NothingBegun
          /\ (mainPc = "exit" => exitStatus = 1 /\ error \in CorrespondingErrors)

\* C6: check_permissions runs once the output directory is prepared and
\* before anything else; when the templates directory or a template is
\* missing, a template is unreadable or generated/ is unwritable, the run ends
\* there with status 1 and an error that corresponds to what is wrong, with no
\* session, no Stats, no renderer and no badge written; and the step of
\* check_permissions leaves the filesystem as it is.
C6_CheckPermissionsGuards ==
    [](C6_State) /\ [][mainPc = "check" => fs' = fs]_vars

\* C6's case: generated/ was there and unwritable, the preparer left it alone,
\* and the run ended on the permission error.
C6_Witness ==
    /\ mainPc = "exit"
    /\ error = "PermissionError: generated"
    /\ calls = << [caller |-> "main", outcome |-> "exists"] >>
    /\ fs.generated = "dir"

\* C7 as claimed: when a renderer has failed, the run fails and the other
\* renderer has still run to its end and written its badge, unless it failed
\* itself.
C7_SiblingCompletes ==
    (mainPc = "exit" /\ \E r \in Renderers : task[r].status = "failed") =>
        /\ exitStatus = 1
        /\ \A q \in Renderers : task[q].status # "failed" => Written(q)

\* C7, amended: a renderer's failure ends the run with status 1; gather
\* cancels nothing (a renderer is cancelled only by the shutdown of the run,
\* once main() has ended, and then every renderer still suspended is); and a
\* renderer's badge is written exactly when it reached its end before that.
C7_FailureSurfacesSiblingMayBeCancelled ==
    /\ (mainPc = "exit" /\ \E r \in Renderers : task[r].status = "failed") =>
          (exitStatus = 1 /\ error # "none")
    /\ \A r \in Renderers :
          /\ task[r].status = "cancelled" => mainPc = "exit"
          /\ mainPc = "exit" =>
                task[r].status \in {"none", "done", "failed", "cancelled"}
          /\ (r \in opened) <=> (task[r].status = "done")
          /\ task[r].status = "done" => Written(r)

\* C7's case: one renderer has failed, main() has seen it, and the other is
\* still suspended at its await, not cancelled.
C7_Witness ==
    /\ mainPc = "closing"
    /\ task["overview"].status = "failed"
    /\ task["languages"].status = "suspended"

\* C8: every call of generate_output_folder after the first finds the
\* directory and does nothing (it neither creates nor raises), so generated/
\* is created at most once in a run, by main(), and stays a directory.
C8_OutputFolderIdempotent ==
    /\ \A i \in 2..Len(calls) : calls[i].outcome = "exists"
    /\ Cardinality({i \in 1..Len(calls) : calls[i].outcome = "created"}) <= 1
    /\ \A i \in 1..Len(calls) : calls[i].outcome = "created" => calls[i].caller = "main"
    /\ Prepared => (fs.generated = "dir" /\ fs.genWritable = (calls[1].outcome = "created" \/ fs0.genWritable))

\* C8's case: main() created the directory and both renderers called again.
C8_Witness ==
    /\ Len(calls) = 3
    /\ calls[1] = [caller |-> "main", outcome |-> "created"]
    /\ {calls[2].caller, calls[3].caller} = Renderers


\* Renderer r run alone from state m until it ends: every await delivers at
\* once, except the one that fail[r] names, which raises.
RECURSIVE RunToEnd(_, _, _, _)
RunToEnd(r, m, snap, fail) ==
    LET m1 == Exec(r, m, snap)
    IN  IF m1.t.status # "suspended" THEN m1
        ELSE IF fail[r] = m1.t.pc
        THEN [m1 EXCEPT !.t.status = "failed", !.t.error = "accessor error"]
        ELSE RunToEnd(r, [m1 EXCEPT !.t.pc = m1.t.pc + 1], snap, fail)

\* The sequential program on this run's inputs: the same main(), with
\* "await generate_languages(s); await generate_overview(s)" in place of the
\* gather.  Its exit status and the output files it leaves.
Sequential ==
    LET g == GenerateOutputFolder(fs0)
        stopsEarly == \/ g.error # "none"
                      \/ CheckPermissions(g.fs) # "none"
                      \/ AccessTokenMissing(env["ACCESS_TOKEN"])
                      \/ UserMissing(env["GITHUB_ACTOR"])
        start(f) == [t |-> [NewTask EXCEPT !.status = "ready"], fs |-> f,
                     calls |-> <<>>, opened |-> {}]
        l == RunToEnd("languages", start(g.fs), snapshot, failAt)
        o == RunToEnd("overview", start(l.fs), snapshot, failAt)
    IN  IF stopsEarly THEN [exit |-> 1, out |-> fs0.out]
        ELSE IF l.t.status # "done" THEN [exit |-> 1, out |-> l.fs.out]
        ELSE IF o.t.status # "done" THEN [exit |-> 1, out |-> o.fs.out]
        ELSE [exit |-> 0, out |-> o.fs.out]

\* C9 as claimed: every finished run has the exit status and leaves the
\* output files of the sequential program on the same inputs.
C9_SameAsSequential ==
    mainPc = "exit" => (exitStatus = Sequential.exit /\ fs.out = Sequential.out)

\* C9, amended: every finished run has the exit status of the sequential
\* program on the same inputs, and leaves the same output files whenever it
\* succeeds or ends before the renderers start.
C9_SameExitSameFilesOnSuccess ==
    mainPc = "exit" =>
        /\ exitStatus = Sequential.exit
        /\ (exitStatus = 0 \/ \A r \in Renderers : NotStarted(r)) =>
               fs.out = Sequential.out

\* C9's case: a successful run in an order the sequential program never
\* takes (the overview renderer wrote its badge before the languages renderer
\* did), which overwrote an earlier run's badges.
C9_Witness ==
    /\ mainPc = "exit"
    /\ exitStatus = 0
    /\ fs0.out["overview"] = OldBadge
    /\ calls[2].caller = "overview"
    /\ fs.out = Sequential.out

\* C10: a renderer opens its output file only when all its awaits are behind
\* it; a file not opened is as it was before the run, and so is the file of a
\* renderer that failed at an accessor call or was cancelled at an await.
C10_OutputUntouchedUntilAwaitsDone ==
    \A r \in Renderers :
        /\ r \in opened => \A a \in AwaitPcs(r) : task[r].pc > a
        /\ r \notin opened => fs.out[r] = fs0.out[r]
        /\ task[r].error \in {"accessor error", "CancelledError"} =>
               fs.out[r] = fs0.out[r]

\* C10's case: the overview renderer failed at its last accessor call, the
\* languages renderer was cancelled, and both old badges are still there.
C10_Witness ==
    /\ mainPc = "exit"
    /\ task["overview"].status = "failed" /\ task["overview"].error = "accessor error"
    /\ task["overview"].pc = 15
    /\ task["languages"].status = "cancelled"
    /\ \A r \in Renderers : fs0.out[r] = OldBadge /\ fs.out[r] = OldBadge

(* The claims about the pure parts of the program.                         *)

\* The configured value of EXCLUDE_FORKED_REPOS.
Flag == env["EXCLUDE_FORKED_REPOS"]

\* The text "false" in any letter case.
IsFalseAnyCase(w) ==
    Len(w) = 5 /\ \A i \in 1..5 : w[i] \in {FalseLower[i], FalseUpper[i]}

\* "false" in any letter case between two runs of whitespace.
IsPaddedFalse(v) ==
    \E i \in 0..Len(v) :
        /\ i + 5 <= Len(v)
        /\ IsFalseAnyCase(SubSeq(v, i + 1, i + 5))
        /\ \A k \in (1..i) \cup ((i + 6)..Len(v)) : v[k] \in Whitespace

\* C2 as claimed: the flag handed to Stats is false when the variable is
\* unset, empty or "false" in any letter case, and true for every other value.
C2_FlagFalseOnlyForLiteralFalse ==
    stats # <<>> =>
        (stats[1].ignore_forked_repos
            <=> ~(~Flag.set \/ Flag.val = <<>> \/ IsFalseAnyCase(Flag.val)))

\* C2, amended: the flag handed to Stats is false when the variable is unset,
\* empty, or "false" in any letter case with whitespace before or after it,
\* and true for every other value.
C2_FlagFalseForPaddedFalse ==
    stats # <<>> =>
        (stats[1].ignore_forked_repos
            <=> ~(~Flag.set \/ Flag.val = <<>> \/ IsPaddedFalse(Flag.val)))

\* C2's case: Stats was constructed with the flag false from a value in mixed
\* case with whitespace around it.
C2_Witness ==
    /\ stats # <<>>
    /\ Flag.val = <<" ", "F", "a", "L", "s", "E", "\n">>
    /\ stats[1].ignore_forked_repos = FALSE

Placeholders(r) == IF r = "overview" THEN OverviewPlaceholders ELSE LanguagesPlaceholders

\* C4: once a renderer has completed, none of its template's placeholders
\* occurs in the file it wrote.
C4_NoPlaceholderLeft ==
    \A r \in Renderers :
        task[r].status = "done" =>
            \A ph \in Placeholders(r) : ~Occurs(ph, fs.out[r].data)

\* The place of an entry in the provider's mapping.
PlaceOf(e) == CHOOSE i \in 1..Len(snapshot.languages) : snapshot.languages[i] = e

\* C5: the entries generate_languages emits are the mapping's entries, each
\* once, by size descending, entries of equal size in the mapping's order.
C5_SortedDescendingStable ==
    LET sorted == task["languages"].sorted
    IN  task["languages"].pc > 3 =>
          /\ Len(sorted) = Len(snapshot.languages)
          /\ \A e \in {snapshot.languages[i] : i \in 1..Len(snapshot.languages)} :
                 \E i \in 1..Len(sorted) : sorted[i] = e
          /\ \A i, j \in 1..Len(sorted) :
                 i < j => /\ sorted[i].size >= sorted[j].size
                          /\ sorted[i].size = sorted[j].size =>
                                 PlaceOf(sorted[i]) < PlaceOf(sorted[j])
          /\ task["languages"].lang_list =
                 Concat([i \in 1..Len(sorted) |-> LangListItem(i - 1, sorted[i])])

\* C5's case: sizes 100, 500, 500 in the mapping; the two entries of size 500
\* come out first, in the mapping's order.
C5_Witness ==
    /\ task["languages"].status = "done"
    /\ snapshot.languages = <<LangGo, LangC, LangPython>>
    /\ task["languages"].sorted = <<LangC, LangPython, LangGo>>

====
